---------------------------- MODULE Spec2Model ----------------------------
(***************************************************************************)
(* A model of pkg/openstack/instancesv2.go: the InstancesV2 implementation *)
(* of the OpenStack cloud provider (InstanceExists, InstanceShutdown,      *)
(* InstanceMetadata, getInstance, makeInstanceID, sanitizeLabel).          *)
(*                                                                         *)
(* Strings are sequences of one-character strings, so that formatting,     *)
(* parsing, trimming and regular-expression matching are computed          *)
(* character by character.                                                 *)
(***************************************************************************)
EXTENDS Integers, Sequences, FiniteSets, TLC

VARIABLES
    region,            \* InstancesV2.region
    regionProviderID,  \* InstancesV2.regionProviderID
    servers,           \* the remote state: indices of ServerUniverse that exist
    op,                \* the operation in progress ("none" before the first call)
    node,              \* the node passed to it: [Name, ProviderID]
    boundTo,           \* <<id>> when node.ProviderID was returned by InstanceMetadata for id
    pc,                \* position of the call: idle, the outstanding remote call, done
    ctxCancelled,      \* whether the caller's ctx has been cancelled
    calls,             \* the remote calls issued by the current call, in order
    loc,               \* what getInstance returned: [server, err]
    failure,           \* the remote call that failed and its error: [at, err]
    serverList,        \* getInstance's serverList, once the listing is extracted
    result,            \* what the operation returned: [val, meta, err]
    sanIn, sanOut, sanTwice, sanPc,         \* the sanitizeLabel harness
    codecID, codecPID, codecDec, codecPc    \* the encode/decode harness

vars == <<region, regionProviderID, servers, op, node, boundTo, pc, ctxCancelled,
          calls, loc, failure, serverList, result, sanIn, sanOut, sanTwice, sanPc,
          codecID, codecPID, codecDec, codecPc>>

mainVars == <<region, regionProviderID, servers, op, node, boundTo, pc,
              ctxCancelled, calls, loc, failure, serverList, result>>
sanVars == <<sanIn, sanOut, sanTwice, sanPc>>
codecVars == <<codecID, codecPID, codecDec, codecPc>>

(***************************************************************************)
(* Bounds of the model.                                                    *)
(***************************************************************************)
\* Remote instances that may exist (a prefix of ServerUniverse).
NumServers == 4
\* Longest tail appended to the padding of a sanitizeLabel input.
MaxTail == 3
\* How far below the label limit the padded sanitizeLabel inputs start.
NearLimit == 2
\* Longest instance identifier of the encode/decode harness.
MaxIdLen == 2
\* Longest region of the encode/decode harness.
MaxRegionLen == 2

(***************************************************************************)
(* Characters and strings.                                                 *)
(***************************************************************************)
LowerChars == {"a", "b", "n", "r", "x", "z", "o", "p", "e", "s", "t", "c", "k"}
UpperChars == {"A", "B", "Z"}
DigitChars == {"1", "2", "3", "4", "5"}

IsAlnum(c) == c \in LowerChars \cup UpperChars \cup DigitChars

\* strings.ToLower on one character
LowerOf(c) ==
    CASE c = "A" -> "a"
      [] c = "B" -> "b"
      [] c = "Z" -> "z"
      [] OTHER -> c

\* All strings over alphabet of length lo..hi
StringsOver(alphabet, lo, hi) ==
    UNION {[1..n -> alphabet] : n \in lo..hi}

\* c repeated n times
Rep(c, n) == [i \in 1..n |-> c]

HasPrefix(s, p) == Len(s) >= Len(p) /\ SubSeq(s, 1, Len(p)) = p

\* position of the first occurrence of c in s, 0 when there is none
IndexOf(s, c) ==
    IF \E i \in 1..Len(s) : s[i] = c
    THEN CHOOSE i \in 1..Len(s) : s[i] = c /\ \A j \in 1..(i-1) : s[j] # c
    ELSE 0

(***************************************************************************)
(* sanitizeLabel                                                           *)
(***************************************************************************)
MaxLabelLen == 63

\* the characters the regexp [^-a-zA-Z0-9_.]+ does not match
LabelChar(c) == IsAlnum(c) \/ c \in {"-", "_", "."}

\* reg.ReplaceAllString(input, "-"): every maximal run of other characters
\* becomes one "-"
RECURSIVE ReplaceRuns(_, _)
ReplaceRuns(s, inRun) ==
    IF s = <<>> THEN <<>>
    ELSE IF LabelChar(Head(s))
         THEN <<Head(s)>> \o ReplaceRuns(Tail(s), FALSE)
         ELSE (IF inRun THEN <<>> ELSE <<"-">>) \o ReplaceRuns(Tail(s), TRUE)

RECURSIVE TrimLeft(_, _)
TrimLeft(s, cutset) ==
    IF s # <<>> /\ Head(s) \in cutset THEN TrimLeft(Tail(s), cutset) ELSE s

RECURSIVE TrimRight(_, _)
TrimRight(s, cutset) ==
    IF s # <<>> /\ s[Len(s)] \in cutset
    THEN TrimRight(SubSeq(s, 1, Len(s) - 1), cutset)
    ELSE s

\* strings.Trim(s, cutset)
Trim(s, cutset) == TrimRight(TrimLeft(s, cutset), cutset)

\* sanitized[:63] when longer than 63
Truncate(s) == IF Len(s) > MaxLabelLen THEN SubSeq(s, 1, MaxLabelLen) ELSE s

ToLower(s) == [i \in 1..Len(s) |-> LowerOf(s[i])]

sanitizeLabel(input) ==
    ToLower(Truncate(Trim(ReplaceRuns(input, FALSE), {"-", "_", "."})))

(***************************************************************************)
(* Errors.  An error value is its dynamic type (kind) and its message      *)
(* (text); Nil is the nil error.  Two errors are the same value only when  *)
(* both agree.                                                             *)
(***************************************************************************)
Nil == [kind |-> "nil", text |-> <<>>]

\* cloudprovider.InstanceNotFound, the sentinel compared by identity
InstanceNotFound == [kind |-> "InstanceNotFound", text |-> <<"instance not found">>]

\* an error a remote call fails with, by its HTTP status
RemoteError(code) == [kind |-> "remote", text |-> <<code>>]
RemoteCodes == {"404", "500"}

\* fmt.Errorf(msg, args...) with %v verbs: a new error whose message embeds
\* the text of its arguments
Errorf(msg, args) == [kind |-> "errorString", text |-> <<msg>> \o args]

\* errors.IsNotFound: the error is the remote API's 404
IsNotFound(err) == err = RemoteError("404")

(***************************************************************************)
(* Provider identities.                                                    *)
(***************************************************************************)
ProviderName == <<"o", "p", "e", "n", "s", "t", "a", "c", "k">>

\* mutant: the region-qualified form without the "/" before the identifier
makeInstanceIDNoSlash(srv) ==
    IF regionProviderID
    THEN ProviderName \o <<":", "/", "/">> \o region \o srv.ID
    ELSE ProviderName \o <<":", "/", "/", "/">> \o srv.ID

\* mutant: the region-qualification flag is ignored
makeInstanceIDUnqualified(srv) == ProviderName \o <<":", "/", "/", "/">> \o srv.ID

makeInstanceID(srv) ==
    IF regionProviderID
    THEN ProviderName \o <<":", "/", "/">> \o region \o <<"/">> \o srv.ID
    ELSE ProviderName \o <<":", "/", "/", "/">> \o srv.ID

\* Decodes "<provider>://<region>/<instanceID>" and "<provider>:///<instanceID>";
\* anything else is a format error.
instanceIDFromProviderID(providerID) ==
    LET scheme == ProviderName \o <<":", "/", "/">>
        rest == SubSeq(providerID, Len(scheme) + 1, Len(providerID))
        slash == IndexOf(rest, "/")
        id == SubSeq(rest, slash + 1, Len(rest))
        formatError == [instanceID |-> <<>>, region |-> <<>>,
                        err |-> Errorf("didn't match expected format", providerID)]
    IN  IF ~HasPrefix(providerID, scheme) THEN formatError
        ELSE IF slash = 0 THEN formatError
        ELSE IF id = <<>> \/ IndexOf(id, "/") # 0 THEN formatError
        ELSE [instanceID |-> id, region |-> SubSeq(rest, 1, slash - 1), err |-> Nil]

(***************************************************************************)
(* The remote compute service.                                             *)
(***************************************************************************)
instanceShutoff == "SHUTOFF"

ServerUniverse == <<
    [ID |-> <<"1">>, Name |-> <<"n">>, Status |-> "ACTIVE",
     AvailabilityZone |-> <<"A", "Z", "_", "1", "!", "!">>],
    [ID |-> <<"2">>, Name |-> <<"n">>, Status |-> "SHUTOFF",
     AvailabilityZone |-> <<"z", "1">>],
    [ID |-> <<"3">>, Name |-> <<"a", ".", "b">>, Status |-> "ACTIVE",
     AvailabilityZone |-> <<"z", "2">>],
    [ID |-> <<"4">>, Name |-> <<"a", "x", "b">>, Status |-> "SHUTOFF",
     AvailabilityZone |-> <<"z", "2">>],
    [ID |-> <<"5">>, Name |-> <<"a", ".", "b">>, Status |-> "SHUTOFF",
     AvailabilityZone |-> <<"z", "1">>],
    [ID |-> <<"6">>, Name |-> <<"a", "-", "b">>, Status |-> "ACTIVE",
     AvailabilityZone |-> <<"z", "1">>] >>

ServerIdx == 1..NumServers
Server(i) == ServerUniverse[i]

\* The compute API's name filter is a regular expression searched for in the
\* instance name: "^" and "$" anchor it, "." matches any character, every
\* other character of a node name matches itself.
RECURSIVE MatchHere(_, _)
MatchHere(pattern, s) ==
    IF pattern = <<>> THEN TRUE
    ELSE IF pattern = <<"$">> THEN s = <<>>
    ELSE IF s # <<>> /\ (Head(pattern) = "." \/ Head(pattern) = Head(s))
         THEN MatchHere(Tail(pattern), Tail(s))
         ELSE FALSE

RegexSearch(pattern, s) ==
    IF pattern # <<>> /\ Head(pattern) = "^"
    THEN MatchHere(Tail(pattern), s)
    ELSE \E i \in 1..(Len(s) + 1) : MatchHere(pattern, SubSeq(s, i, Len(s)))

\* servers.List(i.compute, opt).AllPages + ExtractServers: the existing
\* instances whose name the filter matches, in the service's order
ListServers(opt) ==
    LET RECURSIVE From(_)
        From(i) ==
            IF i > NumServers THEN <<>>
            ELSE (IF i \in servers /\ RegexSearch(opt.Name, Server(i).Name)
                  THEN <<Server(i)>> ELSE <<>>) \o From(i + 1)
    IN  From(1)

\* servers.Get(ctx, i.compute, instanceID).Extract() when the service answers:
\* the instance with that identifier, or the 404 error
GetServer(instanceID) ==
    IF \E i \in servers : Server(i).ID = instanceID
    THEN [server |-> <<Server(CHOOSE i \in servers : Server(i).ID = instanceID)>>,
          err |-> Nil]
    ELSE [server |-> <<>>, err |-> RemoteError("404")]

(***************************************************************************)
(* getInstance, piece by piece.  A pointer is a sequence of length at most *)
(* one: <<>> is nil.                                                       *)
(***************************************************************************)
\* opt := servers.ListOpts{Name: fmt.Sprintf("^%s$", node.Name)}
NameListOpts(n) == [Name |-> <<"^">> \o n.Name \o <<"$">>]

\* the listing failed
ListFailed(opt, err) ==
    [server |-> <<>>, err |-> Errorf("error listing servers", opt.Name \o err.text)]

\* the pages could not be extracted
ExtractFailed(err) ==
    [server |-> <<>>, err |-> Errorf("error extracting servers from pages", err.text)]

\* mutant: several candidates, the first one is taken
ByNameResultFirst(extracted) ==
    IF Len(extracted) = 0 THEN [server |-> <<>>, err |-> InstanceNotFound]
    ELSE [server |-> <<extracted[1]>>, err |-> Nil]

\* the decision on the extracted serverList
ByNameResult(extracted) ==
    IF Len(extracted) = 0 THEN [server |-> <<>>, err |-> InstanceNotFound]
    ELSE IF Len(extracted) > 1
         THEN [server |-> <<>>,
               err |-> Errorf("getInstance: multiple instances found", <<>>)]
         ELSE [server |-> <<extracted[1]>>, err |-> Nil]

\* mutant: the region is not compared
RegionMismatchSkipped(instanceRegion) == FALSE

\* instanceRegion != "" && instanceRegion != i.region
RegionMismatch(instanceRegion) == instanceRegion # <<>> /\ instanceRegion # region

RegionError(n) ==
    [server |-> <<>>,
     err |-> Errorf("ProviderID didn't match supported region", n.ProviderID \o region)]

\* mutant: the error of servers.Get is wrapped in a new error
ByIDResultWrapped(got) ==
    IF got.err # Nil
    THEN IF IsNotFound(got.err)
         THEN [server |-> <<>>, err |-> InstanceNotFound]
         ELSE [server |-> <<>>, err |-> Errorf("error getting server", got.err.text)]
    ELSE [server |-> got.server, err |-> Nil]

\* the decision on what servers.Get returned
ByIDResult(got) ==
    IF got.err # Nil
    THEN IF IsNotFound(got.err)
         THEN [server |-> <<>>, err |-> InstanceNotFound]
         ELSE [server |-> <<>>, err |-> got.err]
    ELSE [server |-> got.server, err |-> Nil]

(***************************************************************************)
(* InstanceExists, InstanceShutdown: what they return for what getInstance *)
(* returned.                                                               *)
(***************************************************************************)
NoMeta == <<>>

\* mutant: every error of getInstance counts as "does not exist"
InstanceExistsReturnSwallow(l) ==
    IF l.err # Nil THEN [val |-> FALSE, meta |-> NoMeta, err |-> Nil]
    ELSE [val |-> TRUE, meta |-> NoMeta, err |-> Nil]

InstanceExistsReturn(l) ==
    IF l.err = InstanceNotFound THEN [val |-> FALSE, meta |-> NoMeta, err |-> Nil]
    ELSE IF l.err # Nil THEN [val |-> FALSE, meta |-> NoMeta, err |-> l.err]
    ELSE [val |-> TRUE, meta |-> NoMeta, err |-> Nil]

InstanceShutdownReturn(l) ==
    IF l.err # Nil THEN [val |-> FALSE, meta |-> NoMeta, err |-> l.err]
    ELSE IF l.server[1].Status = instanceShutoff
         THEN [val |-> TRUE, meta |-> NoMeta, err |-> Nil]
         ELSE [val |-> FALSE, meta |-> NoMeta, err |-> Nil]

(***************************************************************************)
(* The calls.  A call runs from its entry to its first remote call (or to  *)
(* its return), and then from the answer of each remote call to the next   *)
(* one (or to its return): the remote calls are where it blocks.           *)
(***************************************************************************)
Ops == {"InstanceExists", "InstanceShutdown", "InstanceMetadata"}
Outstanding == {"list", "get", "instanceType", "ports", "addresses"}

NoLoc == [server |-> <<>>, err |-> Nil]
NoFailure == [at |-> "", err |-> Nil]
NoResult == [val |-> FALSE, meta |-> NoMeta, err |-> Nil]

Call(api, arg) == [api |-> api, arg |-> arg]

\* the node names and provider identities a caller may pass
NodeNames == {Server(i).Name : i \in ServerIdx} \cup {<<"z">>}
UnknownID == <<"z", "z">>
OtherRegion == <<"o">>
NodeProviderIDs ==
    {<<>>, <<"1">>, ProviderName \o <<":", "/", "1">>}
    \cup {ProviderName \o <<":", "/", "/">> \o r \o <<"/">> \o id :
            r \in {<<>>, <<"r">>, OtherRegion}, id \in {Server(1).ID, UnknownID}}

\* srvInstanceType, getAttachedPorts, nodeAddresses, when they succeed
InstanceTypeOf(server) == <<"flavor">> \o server.ID
AddressesOf(server) == <<"addr">> \o server.ID

\* The rest of the operation o once getInstance has returned l, having issued
\* the calls cs.
Located(o, l, cs) ==
    /\ loc' = l
    /\ IF o = "InstanceExists"
       THEN result' = InstanceExistsReturn(l) /\ pc' = "done" /\ calls' = cs
       ELSE IF o = "InstanceShutdown"
       THEN result' = InstanceShutdownReturn(l) /\ pc' = "done" /\ calls' = cs
       ELSE IF l.err # Nil
       THEN /\ result' = [val |-> FALSE, meta |-> NoMeta, err |-> l.err]
            /\ pc' = "done"
            /\ calls' = cs
       ELSE /\ result' = NoResult
            /\ pc' = "instanceType"
            /\ calls' = Append(cs, Call("srvInstanceType", l.server[1].ID))

\* getInstance up to its remote call
getInstance(o, n) ==
    IF n.ProviderID = <<>>
    THEN /\ calls' = <<Call("servers.List", NameListOpts(n).Name)>>
         /\ pc' = "list"
         /\ loc' = NoLoc
         /\ result' = NoResult
    ELSE LET dec == instanceIDFromProviderID(n.ProviderID)
         IN  IF dec.err # Nil
             THEN Located(o, [server |-> <<>>, err |-> dec.err], <<>>)
             ELSE IF RegionMismatch(dec.region)
             THEN Located(o, RegionError(n), <<>>)
             ELSE /\ calls' = <<Call("servers.Get", dec.instanceID)>>
                  /\ pc' = "get"
                  /\ loc' = NoLoc
                  /\ result' = NoResult

\* A caller calls operation o on a node it made up.
Begin(o, n) ==
    /\ pc = "idle"
    /\ op' = o
    /\ node' = n
    /\ boundTo' = <<>>
    /\ ctxCancelled' = FALSE
    /\ failure' = NoFailure
    /\ serverList' = <<>>
    /\ getInstance(o, n)
    /\ UNCHANGED <<region, regionProviderID, servers, sanVars, codecVars>>

\* A caller calls operation o on a node that carries the ProviderID the
\* InstanceMetadata call before returned.
BeginBound(o, name) ==
    /\ pc = "done"
    /\ result.meta # NoMeta
    /\ op' = o
    /\ node' = [Name |-> name, ProviderID |-> result.meta[1].ProviderID]
    /\ boundTo' = <<loc.server[1].ID>>
    /\ ctxCancelled' = FALSE
    /\ failure' = NoFailure
    /\ serverList' = <<>>
    /\ getInstance(o, node')
    /\ UNCHANGED <<region, regionProviderID, servers, sanVars, codecVars>>

\* The caller has taken the result: nothing of the call is kept.
Return ==
    /\ pc = "done"
    /\ op' = "none"
    /\ node' = [Name |-> <<>>, ProviderID |-> <<>>]
    /\ boundTo' = <<>>
    /\ pc' = "idle"
    /\ ctxCancelled' = FALSE
    /\ calls' = <<>>
    /\ loc' = NoLoc
    /\ failure' = NoFailure
    /\ serverList' = <<>>
    /\ result' = NoResult
    /\ UNCHANGED <<region, regionProviderID, servers, sanVars, codecVars>>

\* The caller cancels the ctx it passed while a remote call is outstanding.
\* getInstance hands context.TODO() to the remote calls and the collaborators
\* take no context: nothing reads the cancellation.
Cancel ==
    /\ pc \in Outstanding
    /\ ~ctxCancelled
    /\ ctxCancelled' = TRUE
    /\ UNCHANGED <<region, regionProviderID, servers, op, node, boundTo, pc, calls,
                   loc, failure, serverList, result, sanVars, codecVars>>

ListSucceeds ==
    /\ pc = "list"
    /\ serverList' = ListServers(NameListOpts(node))
    /\ Located(op, ByNameResult(serverList'), calls)
    /\ UNCHANGED <<region, regionProviderID, servers, op, node, boundTo,
                   ctxCancelled, failure, sanVars, codecVars>>

ListFails(code) ==
    /\ pc = "list"
    /\ failure' = [at |-> "list", err |-> RemoteError(code)]
    /\ Located(op, ListFailed(NameListOpts(node), RemoteError(code)), calls)
    /\ UNCHANGED <<region, regionProviderID, servers, op, node, boundTo,
                   ctxCancelled, serverList, sanVars, codecVars>>

ExtractError == [kind |-> "json", text |-> <<"unexpected end of JSON input">>]

ExtractFails ==
    /\ pc = "list"
    /\ failure' = [at |-> "extract", err |-> ExtractError]
    /\ Located(op, ExtractFailed(ExtractError), calls)
    /\ UNCHANGED <<region, regionProviderID, servers, op, node, boundTo,
                   ctxCancelled, serverList, sanVars, codecVars>>

\* servers.Get answers (the instance, or 404), or fails with another status
GetReturns(got) ==
    /\ pc = "get"
    /\ failure' = IF got.err # Nil THEN [at |-> "get", err |-> got.err] ELSE failure
    /\ Located(op, ByIDResult(got), calls)
    /\ UNCHANGED <<region, regionProviderID, servers, op, node, boundTo,
                   ctxCancelled, serverList, sanVars, codecVars>>

\* a collaborator of InstanceMetadata fails: the operation returns its error
CollaboratorFails(code) ==
    /\ pc \in {"instanceType", "ports", "addresses"}
    /\ failure' = [at |-> pc, err |-> RemoteError(code)]
    /\ result' = [val |-> FALSE, meta |-> NoMeta, err |-> RemoteError(code)]
    /\ pc' = "done"
    /\ UNCHANGED <<region, regionProviderID, servers, op, node, boundTo,
                   ctxCancelled, calls, loc, serverList, sanVars, codecVars>>

InstanceTypeReturns ==
    /\ pc = "instanceType"
    /\ pc' = "ports"
    /\ calls' = Append(calls, Call("getAttachedPorts", loc.server[1].ID))
    /\ UNCHANGED <<region, regionProviderID, servers, op, node, boundTo,
                   ctxCancelled, loc, failure, serverList, result, sanVars, codecVars>>

PortsReturns ==
    /\ pc = "ports"
    /\ pc' = "addresses"
    /\ calls' = Append(calls, Call("nodeAddresses", loc.server[1].ID))
    /\ UNCHANGED <<region, regionProviderID, servers, op, node, boundTo,
                   ctxCancelled, loc, failure, serverList, result, sanVars, codecVars>>

\* the record InstanceMetadata returns for server
Metadata(server) ==
    [ProviderID |-> makeInstanceID(server),
     InstanceType |-> InstanceTypeOf(server),
     NodeAddresses |-> AddressesOf(server),
     Zone |-> sanitizeLabel(server.AvailabilityZone),
     Region |-> region]

AddressesReturns ==
    /\ pc = "addresses"
    /\ pc' = "done"
    /\ result' = [val |-> FALSE, meta |-> <<Metadata(loc.server[1])>>, err |-> Nil]
    /\ UNCHANGED <<region, regionProviderID, servers, op, node, boundTo,
                   ctxCancelled, calls, loc, failure, serverList, sanVars, codecVars>>

\* The remote state changes under the calls.
CreateServer(i) ==
    /\ i \notin servers
    /\ servers' = servers \cup {i}
    /\ UNCHANGED <<region, regionProviderID, op, node, boundTo, pc, ctxCancelled,
                   calls, loc, failure, serverList, result, sanVars, codecVars>>

DeleteServer(i) ==
    /\ i \in servers
    /\ servers' = servers \ {i}
    /\ UNCHANGED <<region, regionProviderID, op, node, boundTo, pc, ctxCancelled,
                   calls, loc, failure, serverList, result, sanVars, codecVars>>

(***************************************************************************)
(* Specifications.                                                         *)
(***************************************************************************)
LocalRegions == {<<"r">>, <<>>}

\* no call in progress
Idle ==
    /\ op = "none"
    /\ node = [Name |-> <<>>, ProviderID |-> <<>>]
    /\ boundTo = <<>>
    /\ pc = "idle"
    /\ ctxCancelled = FALSE
    /\ calls = <<>>
    /\ loc = NoLoc
    /\ failure = NoFailure
    /\ serverList = <<>>
    /\ result = NoResult

SanIdle == sanIn = <<>> /\ sanOut = <<>> /\ sanTwice = <<>> /\ sanPc = "off"
CodecIdle ==
    /\ codecID = <<>>
    /\ codecPID = <<>>
    /\ codecDec = [instanceID |-> <<>>, region |-> <<>>, err |-> Nil]
    /\ codecPc = "off"

Init ==
    /\ region \in LocalRegions
    /\ regionProviderID \in BOOLEAN
    /\ servers \in SUBSET ServerIdx
    /\ Idle
    /\ SanIdle
    /\ CodecIdle

Next ==
    \/ \E o \in Ops, name \in NodeNames, pid \in NodeProviderIDs :
          Begin(o, [Name |-> name, ProviderID |-> pid])
    \/ \E o \in Ops, name \in NodeNames : BeginBound(o, name)
    \/ Return
    \/ Cancel
    \/ ListSucceeds
    \/ \E code \in RemoteCodes : ListFails(code)
    \/ ExtractFails
    \/ \E got \in {GetServer(instanceIDFromProviderID(node.ProviderID).instanceID),
                   [server |-> <<>>, err |-> RemoteError("500")]} : GetReturns(got)
    \/ \E code \in RemoteCodes : CollaboratorFails(code)
    \/ InstanceTypeReturns
    \/ PortsReturns
    \/ AddressesReturns
    \/ \E i \in ServerIdx : CreateServer(i)
    \/ \E i \in ServerIdx : DeleteServer(i)

Spec == Init /\ [][Next]_vars

(***************************************************************************)
(* Properties of the calls (specification Spec).                           *)
(***************************************************************************)
\* the by-name listing of the current call has been extracted
Listed ==
    /\ op # "none"
    /\ node.ProviderID = <<>>
    /\ pc # "list"
    /\ failure.at \notin {"list", "extract"}

AmbiguityError == Errorf("getInstance: multiple instances found", <<>>)

\* C1: on a node without provider identity, getInstance decides by the number
\* of candidates the by-name listing returned: none gives InstanceNotFound,
\* exactly one gives that candidate, two or more give the ambiguity error and
\* no instance.
LocateDecidesByCount ==
    Listed =>
        /\ Len(serverList) = 0 => loc = [server |-> <<>>, err |-> InstanceNotFound]
        /\ Len(serverList) = 1 => loc = [server |-> <<serverList[1]>>, err |-> Nil]
        /\ Len(serverList) >= 2 => loc = [server |-> <<>>, err |-> AmbiguityError]

\* C1 witness: a by-name lookup that found two candidates has returned.
WitnessAmbiguousLookup ==
    Listed /\ pc = "done" /\ Len(serverList) >= 2 /\ loc.server = <<>>

\* C2: InstanceExists returns (true, nil) exactly when getInstance returned an
\* instance, (false, nil) exactly when it failed with InstanceNotFound, and
\* (false, err) with getInstance's error otherwise; an ambiguous name gives an
\* error.
ExistsMapsLocator ==
    (pc = "done" /\ op = "InstanceExists") =>
        /\ (result.val /\ result.err = Nil) <=> (loc.err = Nil /\ loc.server # <<>>)
        /\ (~result.val /\ result.err = Nil) <=> (loc.err = InstanceNotFound)
        /\ loc.err \notin {Nil, InstanceNotFound} =>
              result = [val |-> FALSE, meta |-> NoMeta, err |-> loc.err]
        /\ (Listed /\ Len(serverList) >= 2) => (~result.val /\ result.err # Nil)

\* C2 witness: InstanceExists has returned for a name two instances carry.
WitnessExistsAmbiguous ==
    /\ pc = "done"
    /\ op = "InstanceExists"
    /\ Listed
    /\ Len(serverList) >= 2
    /\ result.err = AmbiguityError

\* the node's provider identity decodes to a region of another deployment
ForeignRegion ==
    /\ op # "none"
    /\ node.ProviderID # <<>>
    /\ LET dec == instanceIDFromProviderID(node.ProviderID)
       IN  dec.err = Nil /\ dec.region # <<>> /\ dec.region # region

\* C3: when the node's provider identity decodes to a non-empty region other
\* than the configured one, the operation (whichever it is) has failed with
\* the region-mismatch error and has issued no remote call.
RegionMismatchNoRemoteCall ==
    ForeignRegion =>
        /\ pc = "done"
        /\ calls = <<>>
        /\ loc = RegionError(node)
        /\ result = [val |-> FALSE, meta |-> NoMeta, err |-> RegionError(node).err]

\* C3 witness: InstanceMetadata has returned for an identity of another region.
WitnessForeignRegionMetadata ==
    ForeignRegion /\ op = "InstanceMetadata" /\ pc = "done" /\ result.err # Nil

\* a remote call of the current call failed with something else than not-found
RemoteFailure == pc = "done" /\ failure.err # Nil /\ ~IsNotFound(failure.err)

\* C5 as claimed: the error a remote call failed with (not a not-found) is the
\* error the operation returns, unchanged, and no metadata comes with it.
ErrorsReachCallerUnchanged ==
    RemoteFailure => (result.err = failure.err /\ result.meta = NoMeta)

\* C5 as amended: the error of servers.Get and of the collaborators of
\* InstanceMetadata is returned unchanged; a failure of the by-name listing
\* (the request, or the extraction of its pages) is returned as a new error
\* whose message embeds the text of the original one; no metadata comes with
\* either.
ErrorsReachCaller ==
    RemoteFailure =>
        /\ result.meta = NoMeta
        /\ ~result.val
        /\ failure.at \in {"get", "instanceType", "ports", "addresses"} =>
              result.err = failure.err
        /\ failure.at = "list" =>
              result.err = Errorf("error listing servers",
                                  NameListOpts(node).Name \o failure.err.text)
        /\ failure.at = "extract" =>
              result.err = Errorf("error extracting servers from pages",
                                  failure.err.text)

\* C5 witness: servers.Get failed with a 500 and the operation has returned.
WitnessGetFailed ==
    RemoteFailure /\ failure.at = "get" /\ result.err = RemoteError("500")

ContextCanceled == [kind |-> "context", text |-> <<"context canceled">>]

\* C6: once the ctx is cancelled while a remote call is outstanding, the call
\* does not wait for the answer and issues no further remote call: its only
\* step is to return the cancellation.
CancellationHonoured ==
    [][(ctxCancelled /\ pc \in Outstanding) =>
          \/ pc' = pc /\ calls' = calls
          \/ pc' = "done" /\ calls' = calls /\ result'.err = ContextCanceled]_vars

\* C9: the instances the by-name listing selects are the existing instances
\* whose name equals the node name, so getInstance never returns an instance
\* of another name.
ByNameIsExactMatch ==
    Listed =>
        /\ \A k \in 1..Len(serverList) : serverList[k].Name = node.Name
        /\ loc.server # <<>> => loc.server[1].Name = node.Name

\* C10: a node that carries the ProviderID InstanceMetadata returned for an
\* instance decodes without format error, passes the region check, is fetched
\* by that instance's identifier, and resolves to no other instance.
ProviderIDResolvesBack ==
    boundTo # <<>> =>
        LET dec == instanceIDFromProviderID(node.ProviderID)
        IN  /\ dec.err = Nil
            /\ ~RegionMismatch(dec.region)
            /\ dec.instanceID = boundTo[1]
            /\ calls # <<>>
            /\ calls[1] = Call("servers.Get", boundTo[1])
            /\ loc.server # <<>> => loc.server[1].ID = boundTo[1]

\* C10 witness: such a node has been resolved while other instances exist.
WitnessResolvedBack ==
    /\ boundTo # <<>>
    /\ regionProviderID
    /\ region # <<>>
    /\ pc = "done"
    /\ loc.server # <<>>
    /\ loc.server[1].Name # node.Name
    /\ Cardinality(servers) >= 2

(***************************************************************************)
(* sanitizeLabel on its own (specification SpecSan): an input is drawn,    *)
(* sanitized, and the output sanitized again.                              *)
(***************************************************************************)
SanAlphabet == {"a", "B", "-", "_", ".", "!"}

\* short inputs, and inputs padded up to the label limit
PadLens == {0} \cup ((MaxLabelLen - NearLimit)..MaxLabelLen)
SanInputs ==
    {Rep("a", k) \o tl : k \in PadLens, tl \in StringsOver(SanAlphabet, 0, MaxTail)}

InitSan ==
    /\ region = <<"r">>
    /\ regionProviderID = FALSE
    /\ servers = {}
    /\ Idle
    /\ CodecIdle
    /\ sanIn \in SanInputs
    /\ sanOut = <<>>
    /\ sanTwice = <<>>
    /\ sanPc = "in"

Sanitize ==
    /\ sanPc = "in"
    /\ sanOut' = sanitizeLabel(sanIn)
    /\ sanPc' = "once"
    /\ UNCHANGED <<sanIn, sanTwice, mainVars, codecVars>>

SanitizeAgain ==
    /\ sanPc = "once"
    /\ sanTwice' = sanitizeLabel(sanOut)
    /\ sanPc' = "twice"
    /\ UNCHANGED <<sanIn, sanOut, mainVars, codecVars>>

NextSan == Sanitize \/ SanitizeAgain

SpecSan == InitSan /\ [][NextSan]_vars

\* C7: sanitizing the output of sanitizeLabel again changes nothing.
SanitizeIdempotent == sanPc = "twice" => sanTwice = sanOut

LowerLabelChar(c) == c \in LowerChars \cup DigitChars \cup {"-", "_", "."}

WellFormedLabel(s) ==
    /\ Len(s) <= MaxLabelLen
    /\ \A i \in 1..Len(s) : LowerLabelChar(s[i])
    /\ s # <<>>
    /\ IsAlnum(s[1])
    /\ IsAlnum(s[Len(s)])

\* C8: for an input with at least one alphanumeric character the output has
\* at most 63 characters, all of them lower-case alphanumerics, "-", "_" or
\* ".", and starts and ends with an alphanumeric character.
SanitizeWellFormed ==
    (sanPc # "in" /\ \E i \in 1..Len(sanIn) : IsAlnum(sanIn[i])) =>
        WellFormedLabel(sanOut)

(***************************************************************************)
(* The provider identity on its own (specification SpecCodec): an instance *)
(* identifier is encoded under a drawn configuration and decoded again.    *)
(***************************************************************************)
IdAlphabet == {"1", "a", "-"}
RegionAlphabet == {"r", "1"}

InitCodec ==
    /\ region \in StringsOver(RegionAlphabet, 0, MaxRegionLen)
    /\ regionProviderID \in BOOLEAN
    /\ servers = {}
    /\ Idle
    /\ SanIdle
    /\ codecID \in StringsOver(IdAlphabet, 1, MaxIdLen)
    /\ codecPID = <<>>
    /\ codecDec = [instanceID |-> <<>>, region |-> <<>>, err |-> Nil]
    /\ codecPc = "in"

Encode ==
    /\ codecPc = "in"
    /\ codecPID' = makeInstanceID([ID |-> codecID])
    /\ codecPc' = "encoded"
    /\ UNCHANGED <<codecID, codecDec, mainVars, sanVars>>

Decode ==
    /\ codecPc = "encoded"
    /\ codecDec' = instanceIDFromProviderID(codecPID)
    /\ codecPc' = "decoded"
    /\ UNCHANGED <<codecID, codecPID, mainVars, sanVars>>

NextCodec == Encode \/ Decode

SpecCodec == InitCodec /\ [][NextCodec]_vars

\* C4: decoding what makeInstanceID encoded gives back the instance
\* identifier, with the configured region in region-qualified mode and the
\* empty region otherwise.
RoundTrip ==
    codecPc = "decoded" =>
        codecDec = [instanceID |-> codecID,
                    region |-> IF regionProviderID THEN region ELSE <<>>,
                    err |-> Nil]

\* C4 witness: a region-qualified identity with a region has been decoded.
WitnessRoundTrip ==
    /\ codecPc = "decoded"
    /\ regionProviderID
    /\ region # <<>>
    /\ Len(codecID) > 1
    /\ codecDec.region = region

=============================================================================
